---- MODULE Spec2Model ----
(***************************************************************************)
(* img2cluster: the Painter component (src/src/renderer/App.tsx) and the   *)
(* grayscale classifier (src/src/renderer/utils.ts).                       *)
(*                                                                         *)
(* JavaScript numbers are IEEE-754 doubles.  The first part of the module  *)
(* is an exact model of double arithmetic (round to nearest, ties to even) *)
(* on arbitrary-precision naturals kept as little-endian limb sequences,   *)
(* so that rounding in the classifier and in the fit-to-viewport transform *)
(* is what the program computes and not real arithmetic.                   *)
(***************************************************************************)
EXTENDS Integers, Sequences, FiniteSets, TLC

(***************************************************************************)
(* Arbitrary-precision naturals: <<l1, ..., ln>> is the sum of             *)
(* l_i * Base^(i-1), with no leading zero limb (zero is << >>).            *)
(***************************************************************************)
Base == 2^14

Limb(a, i) == IF i <= Len(a) THEN a[i] ELSE 0

RECURSIVE BTrim(_)
BTrim(a) ==
    IF Len(a) = 0 THEN a
    ELSE IF a[Len(a)] = 0 THEN BTrim(SubSeq(a, 1, Len(a) - 1)) ELSE a

RECURSIVE BFromNat(_)
BFromNat(n) == IF n = 0 THEN << >> ELSE <<n % Base>> \o BFromNat(n \div Base)

RECURSIVE BToNat(_)
BToNat(a) == IF Len(a) = 0 THEN 0 ELSE a[1] + Base * BToNat(Tail(a))

RECURSIVE BAddC(_, _, _, _)
BAddC(a, b, i, c) ==
    IF i > Len(a) /\ i > Len(b) THEN (IF c = 0 THEN << >> ELSE <<c>>)
    ELSE LET s == Limb(a, i) + Limb(b, i) + c
         IN  <<s % Base>> \o BAddC(a, b, i + 1, s \div Base)

BAdd(a, b) == BAddC(a, b, 1, 0)

RECURSIVE BSubC(_, _, _, _)
BSubC(a, b, i, br) ==
    IF i > Len(a) THEN << >>
    ELSE LET d == Limb(a, i) - Limb(b, i) - br
         IN  IF d < 0 THEN <<d + Base>> \o BSubC(a, b, i + 1, 1)
                      ELSE <<d>> \o BSubC(a, b, i + 1, 0)

\* a - b for a >= b
BSub(a, b) == BTrim(BSubC(a, b, 1, 0))

RECURSIVE BCmpFrom(_, _, _)
BCmpFrom(a, b, i) ==
    IF i = 0 THEN 0
    ELSE IF a[i] > b[i] THEN 1
    ELSE IF a[i] < b[i] THEN -1
    ELSE BCmpFrom(a, b, i - 1)

BCmp(a, b) ==
    IF Len(a) > Len(b) THEN 1
    ELSE IF Len(a) < Len(b) THEN -1
    ELSE BCmpFrom(a, b, Len(a))

RECURSIVE BMulSmallC(_, _, _, _)
BMulSmallC(a, k, i, c) ==
    IF i > Len(a) THEN (IF c = 0 THEN << >> ELSE <<c>>)
    ELSE LET p == a[i] * k + c
         IN  <<p % Base>> \o BMulSmallC(a, k, i + 1, p \div Base)

\* a * k for 0 <= k < Base
BMulSmall(a, k) == IF k = 0 THEN << >> ELSE BMulSmallC(a, k, 1, 0)

BShlLimbs(a, n) == IF Len(a) = 0 THEN a ELSE [i \in 1..n |-> 0] \o a

RECURSIVE BMulFrom(_, _, _)
BMulFrom(a, b, i) ==
    IF i > Len(b) THEN << >>
    ELSE BAdd(BShlLimbs(BMulSmall(a, b[i]), i - 1), BMulFrom(a, b, i + 1))

BMul(a, b) == BMulFrom(a, b, 1)

RECURSIVE BDivSmallFrom(_, _, _, _)
BDivSmallFrom(a, d, i, r) ==
    IF i = 0 THEN [q |-> << >>, r |-> r]
    ELSE LET cur  == r * Base + a[i]
             rest == BDivSmallFrom(a, d, i - 1, cur % d)
         IN  [q |-> rest.q \o <<cur \div d>>, r |-> rest.r]

\* quotient and remainder of a by d, 0 < d <= Base
BDivSmall(a, d) ==
    LET x == BDivSmallFrom(a, d, Len(a), 0)
    IN  [q |-> BTrim(x.q), r |-> x.r]

RECURSIVE BitLenNat(_)
BitLenNat(n) == IF n = 0 THEN 0 ELSE 1 + BitLenNat(n \div 2)

BBitLen(a) == IF Len(a) = 0 THEN 0 ELSE 14 * (Len(a) - 1) + BitLenNat(a[Len(a)])

BShl(a, n) ==
    IF n = 0 THEN a ELSE BShlLimbs(BMulSmall(a, 2^(n % 14)), n \div 14)

BShr(a, n) ==
    IF (n \div 14) >= Len(a) THEN << >>
    ELSE BDivSmall(SubSeq(a, (n \div 14) + 1, Len(a)), 2^(n % 14)).q

BBit(a, i) == (Limb(a, (i \div 14) + 1) \div 2^(i % 14)) % 2

\* the n low bits of a are all 0
BLowZero(a, n) == \A i \in 0..(n - 1) : BBit(a, i) = 0

RECURSIVE TzNat(_)
TzNat(n) == IF n % 2 = 1 THEN 0 ELSE 1 + TzNat(n \div 2)

RECURSIVE BTzFrom(_, _)
BTzFrom(a, i) == IF a[i] # 0 THEN 14 * (i - 1) + TzNat(a[i]) ELSE BTzFrom(a, i + 1)

\* number of trailing zero bits of a # 0
BTz(a) == BTzFrom(a, 1)

RECURSIVE BDivBits(_, _, _, _, _, _)
\* the next step of the division, once the quotient q2 and the remainder r3
\* after bit i are known (the test on the lengths makes both values before
\* the step)
BDivNext(a, b, i, lo, q2, r3) ==
    IF Len(q2) + Len(r3) >= 0 THEN BDivBits(a, b, i - 1, lo, q2, r3)
    ELSE [q |-> q2, r |-> r3]

\* bit i of the quotient: ge says that the remainder r2 holds the divisor
BDivTake(a, b, i, lo, q, r2, ge) ==
    BDivNext(a, b, i, lo, BAdd(BShl(q, 1), IF ge THEN <<1>> ELSE << >>),
             IF ge THEN BSub(r2, b) ELSE r2)

BDivCompare(a, b, i, lo, q, r2) == BDivTake(a, b, i, lo, q, r2, BCmp(r2, b) >= 0)

\* binary long division over bits i down to lo of a, with quotient q and
\* remainder r so far
BDivBits(a, b, i, lo, q, r) ==
    IF i < lo THEN [q |-> q, r |-> r]
    ELSE BDivCompare(a, b, i, lo, q,
                     BAdd(BShl(r, 1), IF BBit(a, i) = 1 THEN <<1>> ELSE << >>))

RECURSIVE BDivLimbs(_, _, _, _)
\* the next limb, once the quotient and remainder x after limb i are known
BDivLimbNext(a, b, i, x) ==
    IF Len(x.q) + Len(x.r) >= 0 THEN BDivLimbs(a, b, i - 1, x) ELSE x

\* the same division taken one limb of a at a time, from limb i down
BDivLimbs(a, b, i, qr) ==
    IF i = 0 THEN qr
    ELSE BDivLimbNext(a, b, i, BDivBits(a, b, 14 * i - 1, 14 * (i - 1), qr.q, qr.r))

\* for a divisor of one limb, x being BDivSmall's result
BDivModSmall(x) == [q |-> x.q, r |-> BFromNat(x.r)]

\* quotient and remainder of a by b # 0
BDivMod(a, b) ==
    IF Len(b) = 1 THEN BDivModSmall(BDivSmall(a, b[1]))
    ELSE BDivLimbs(a, b, Len(a), [q |-> << >>, r |-> << >>])

(***************************************************************************)
(* Doubles: [s, m, e] is s * m * 2^e with s in {1,-1} and m odd (the       *)
(* mantissa with its trailing zero bits moved into e), so every double has *)
(* one representation; zero is DZero; s = 0 is NaN.  Infinities and        *)
(* subnormals are out of the range the program's values take here.         *)
(***************************************************************************)
DZero == [s |-> 1, m |-> << >>, e |-> 0]

NaN == [s |-> 0, m |-> << >>, e |-> 0]

IsNaN(a) == a.s = 0

DCanonShift(s, N, e, tz) == [s |-> s, m |-> BShr(N, tz), e |-> e + tz]

DCanon(s, N, e) ==
    IF Len(N) = 0 THEN DZero
    ELSE IF N[1] % 2 = 1 THEN [s |-> s, m |-> N, e |-> e]
    ELSE DCanonShift(s, N, e, BTz(N))

\* N with its sh low bits rounded away, q being the bits kept
DRoundUp(s, N, e, sh, q) ==
    DCanon(s,
           IF BBit(N, sh - 1) = 1 /\ (~BLowZero(N, sh - 1) \/ BBit(q, 0) = 1)
           THEN BAdd(q, <<1>>) ELSE q,
           e + sh)

DRoundBits(s, N, e, sh) == DRoundUp(s, N, e, sh, BShr(N, sh))

\* s * N * 2^e rounded to 53 significant bits, ties to even
DRound(s, N, e) ==
    IF Len(N) <= 3 \/ BBitLen(N) <= 53 THEN DCanon(s, N, e)
    ELSE DRoundBits(s, N, e, BBitLen(N) - 53)

DFromInt(n) ==
    IF n = 0 THEN DZero
    ELSE IF n < 0 THEN DCanon(-1, BFromNat(-n), 0) ELSE DCanon(1, BFromNat(n), 0)

DSign(a) == IF Len(a.m) = 0 THEN 0 ELSE a.s

DNeg(a) == IF DSign(a) = 0 THEN a ELSE [a EXCEPT !.s = -a.s]

DMinExp(a, b) == IF a.e < b.e THEN a.e ELSE b.e

DMul(a, b) ==
    IF IsNaN(a) \/ IsNaN(b) THEN NaN
    ELSE DRound(a.s * b.s, BMul(a.m, b.m), a.e + b.e)

\* the sum of the aligned mantissas am and bm, c comparing them
DAddSigned(a, b, e, am, bm, c) ==
    IF a.s = b.s THEN DRound(a.s, BAdd(am, bm), e)
    ELSE IF c = 0 THEN DZero
    ELSE IF c > 0 THEN DRound(a.s, BSub(am, bm), e)
    ELSE DRound(b.s, BSub(bm, am), e)

DAddAligned(a, b, e, am, bm) == DAddSigned(a, b, e, am, bm, BCmp(am, bm))

DAddAt(a, b, e) == DAddAligned(a, b, e, BShl(a.m, a.e - e), BShl(b.m, b.e - e))

DAdd(a, b) ==
    IF IsNaN(a) \/ IsNaN(b) THEN NaN
    ELSE DAddAt(a, b, DMinExp(a, b))

DSub(a, b) == DAdd(a, DNeg(b))

\* the quotient qr of a.m * 2^k by b.m, rounded
DDivRound(a, b, k, qr) ==
    IF Len(qr.r) = 0
    THEN DRound(a.s * b.s, qr.q, a.e - b.e - k)
    ELSE DRound(a.s * b.s, BAdd(BShl(qr.q, 1), <<1>>), a.e - b.e - k - 1)

DDivShifted(a, b, k) == DDivRound(a, b, k, BDivMod(BShl(a.m, k), b.m))

DDivBits(a, b, d) == DDivShifted(a, b, IF d > 0 THEN d ELSE 0)

\* a / b for b # 0: exact when b is a power of two; otherwise the quotient
\* is taken to at least 56 bits and the remainder kept as one sticky bit
\* below them, then rounded
DDiv(a, b) ==
    IF IsNaN(a) \/ IsNaN(b) THEN NaN
    ELSE IF DSign(a) = 0 THEN DZero
    ELSE IF b.m = <<1>> THEN [s |-> a.s * b.s, m |-> a.m, e |-> a.e - b.e]
    ELSE DDivBits(a, b, 56 + BBitLen(b.m) - BBitLen(a.m))

\* for operands of one sign, e being the smaller exponent
DCmpAt(a, b, e) == DSign(a) * BCmp(BShl(a.m, a.e - e), BShl(b.m, b.e - e))

\* -1, 0 or 1 as a < b, a = b, a > b (neither NaN)
DCmp(a, b) ==
    IF DSign(a) # DSign(b) THEN (IF DSign(a) > DSign(b) THEN 1 ELSE -1)
    ELSE DCmpAt(a, b, DMinExp(a, b))

\* the JavaScript comparisons: false when an operand is NaN
DGt(a, b) == ~IsNaN(a) /\ ~IsNaN(b) /\ DCmp(a, b) > 0

DLt(a, b) == ~IsNaN(a) /\ ~IsNaN(b) /\ DCmp(a, b) < 0

DLe(a, b) == ~IsNaN(a) /\ ~IsNaN(b) /\ DCmp(a, b) <= 0

\* a decimal literal num/den of the source text: the nearest double
DLit(num, den) == DDiv(DFromInt(num), DFromInt(den))

(***************************************************************************)
(* utils.ts: getGrayscaleValue.  The arguments are JavaScript values: a    *)
(* channel read past the pixel array is undefined, which arithmetic turns  *)
(* into NaN.                                                               *)
(***************************************************************************)
\* the literals 0.299, 0.587 and 0.114 (line 7): the nearest doubles
Lit299 == [s |-> 1, m |-> <<393, 5505, 11534, 1224>>, e |-> -54]

Lit587 == [s |-> 1, m |-> <<2097, 12976, 1441, 601>>, e |-> -52]

Lit114 == [s |-> 1, m |-> <<14025, 16121, 12713, 1867>>, e |-> -56]

\* they are what rounding the decimal fractions gives
LiteralsAreNearest ==
    /\ Lit299 = DLit(299, 1000)
    /\ Lit587 = DLit(587, 1000)
    /\ Lit114 = DLit(114, 1000)

Luminance(r, g, b) ==
    DAdd(DAdd(DMul(Lit299, r), DMul(Lit587, g)), DMul(Lit114, b))

\* a classifier whose upper result is the cutoff itself
CutoffGrayscaleValue(alpla, r, g, b) ==
    IF DGt(Luminance(r, g, b), alpla) THEN 240 ELSE 0

\* the classifier with its two results exchanged
SwappedGrayscaleValue(alpla, r, g, b) ==
    IF DGt(Luminance(r, g, b), alpla) THEN 0 ELSE 255

getGrayscaleValue(alpla, r, g, b) ==
    IF DGt(Luminance(r, g, b), alpla) THEN 255 ELSE 0

(***************************************************************************)
(* The JavaScript library functions the component calls, on doubles.       *)
(***************************************************************************)
DIsInt(a) == ~IsNaN(a) /\ a.e >= 0

\* the integer part of |a| as a natural
DFloorAbs(a) == IF a.e >= 0 THEN BShl(a.m, a.e) ELSE BShr(a.m, -a.e)

\* an integral double as an integer
DToInt(a) == a.s * BToNat(DFloorAbs(a))

\* Math.ceil
MathCeil(a) ==
    IF IsNaN(a) \/ a.e >= 0 THEN a
    ELSE IF a.s > 0 THEN DCanon(1, BAdd(DFloorAbs(a), <<1>>), 0)
    ELSE DCanon(-1, DFloorAbs(a), 0)

\* Math.round: the nearest integer, a tie going up (towards +Infinity)
MathRound(a) ==
    IF IsNaN(a) \/ a.e >= 0 THEN a
    ELSE IF a.s > 0
         THEN DCanon(1, BAdd(DFloorAbs(a),
                             IF BBit(a.m, -a.e - 1) = 1 THEN <<1>> ELSE << >>), 0)
         ELSE DCanon(-1, BAdd(DFloorAbs(a),
                              IF BBit(a.m, -a.e - 1) = 1 /\ a.e < -1
                              THEN <<1>> ELSE << >>), 0)

\* Math.min of two numbers
MathMin(a, b) == IF IsNaN(a) \/ IsNaN(b) THEN NaN ELSE IF DCmp(a, b) <= 0 THEN a ELSE b

\* the conversion of a number to a WebIDL long (getImageData) or to a canvas
\* dimension: the fraction is dropped
ToLong(a) == IF IsNaN(a) THEN 0 ELSE DToInt(a)

ToFixedDigits(a, n) ==
    [neg |-> a.s < 0 /\ Len(a.m) > 0, int |-> n \div 100, frac |-> n % 100]

ToFixedHundredths(a, P) ==
    ToFixedDigits(a, IF a.e >= 0 THEN BToNat(BShl(P, a.e))
                     ELSE BToNat(BShr(P, -a.e)) + BBit(P, -a.e - 1))

\* Number.prototype.toFixed(2): the integer n nearest to |a| * 100 in exact
\* arithmetic (the larger on a tie), as sign, integer part and two digits
ToFixed2(a) == ToFixedHundredths(a, BMulSmall(a.m, 100))

CommaText(t) ==
    (IF t.neg THEN "-" ELSE "") \o ToString(t.int) \o ","
    \o (IF t.frac < 10 THEN "0" ELSE "") \o ToString(t.frac)

\* String(v.toFixed(2)).replace('.', ','): the decimal point becomes a comma
FormatComma(a) == CommaText(ToFixed2(a))

(***************************************************************************)
(* Images.  An uploaded file decodes to a bitmap of img.width x img.height *)
(* opaque pixels; img.onload fires only for a bitmap that decoded, so both *)
(* dimensions are positive.                                                *)
(***************************************************************************)
ImageNames == {"black10", "white10", "strip", "light"}

ImageWidth(img) == IF img \in {"black10", "white10"} THEN 10 ELSE 1

ImageHeight(img) == IF img \in {"black10", "white10"} THEN 10 ELSE 16

\* the colour <<r, g, b>> of the bitmap's pixel in column x, row y
ImagePixel(img, x, y) ==
    CASE img = "black10" -> <<0, 0, 0>>
      [] img = "white10" -> <<255, 255, 255>>
      [] img = "light"   -> <<255, 255, 255>>
      [] OTHER           -> IF y < 8 THEN <<255, 255, 255>> ELSE <<90, 90, 90>>

(***************************************************************************)
(* processImage, lines 93-106: the fit-to-viewport transform.  img.width   *)
(* and img.height are integers, width and height are numbers.              *)
(***************************************************************************)
\* lines 105-106, once the draw rectangle is known
FitOffsets(aspectRatio, wide, width, height, drawWidth, drawHeight) ==
    [aspectRatio |-> aspectRatio,
     fitsWidth |-> wide,
     drawWidth |-> drawWidth,
     drawHeight |-> drawHeight,
     offsetX |-> DDiv(DSub(width, drawWidth), DFromInt(2)),
     offsetY |-> DDiv(DSub(height, drawHeight), DFromInt(2))]

\* lines 97-103, once the aspect ratio is known
FitRectangle(aspectRatio, wide, width, height) ==
    FitOffsets(aspectRatio, wide, width, height,
               IF wide THEN width ELSE DMul(height, aspectRatio),
               IF wide THEN DDiv(width, aspectRatio) ELSE height)

\* the transform fitting to the viewport height whatever the aspect ratio
FitToHeightOnly(imgWidth, imgHeight, width, height) ==
    FitRectangle(DDiv(DFromInt(imgWidth), DFromInt(imgHeight)), FALSE, width, height)

FitAspect(aspectRatio, width, height) ==
    FitRectangle(aspectRatio, DGt(aspectRatio, DFromInt(1)), width, height)

FitToViewport(imgWidth, imgHeight, width, height) ==
    FitAspect(DDiv(DFromInt(imgWidth), DFromInt(imgHeight)), width, height)

chunkSize == 100

(***************************************************************************)
(* processImage, lines 82-122: everything a run computes before its first  *)
(* band.  cv is the canvas the 2d context belongs to ([w, h] in pixels).   *)
(* getImageData(offsetX, offsetY, drawWidth, drawHeight) converts its      *)
(* arguments to long; a zero sw or sh throws IndexSizeError (fault).       *)
(* scaleFactor is the value the processImage closure holds.                *)
(***************************************************************************)
RunContext(cv, img, width, height, inversive, spacing, alpha, filePath, sf, fit, sw, sh) ==
    [img |-> img, width |-> width, height |-> height,
     inversive |-> inversive, spacing |-> spacing, alpha |-> alpha,
     filePath |-> filePath, scaleFactor |-> sf,
     drawWidth |-> fit.drawWidth, drawHeight |-> fit.drawHeight,
     offsetX |-> fit.offsetX, offsetY |-> fit.offsetY,
     sx |-> ToLong(fit.offsetX), sy |-> ToLong(fit.offsetY),
     sw |-> sw, sh |-> sh, cw |-> cv.w, ch |-> cv.h,
     fault |-> sw = 0 \/ sh = 0,
     totalChunks |-> DToInt(MathCeil(DDiv(fit.drawHeight, DFromInt(chunkSize))))]

FittedContext(cv, img, width, height, inversive, spacing, alpha, filePath, sf, fit) ==
    RunContext(cv, img, width, height, inversive, spacing, alpha, filePath, sf,
               fit, ToLong(fit.drawWidth), ToLong(fit.drawHeight))

processImage(cv, img, width, height, inversive, spacing, alpha, filePath, sf) ==
    FittedContext(cv, img, width, height, inversive, spacing, alpha, filePath, sf,
                  FitToViewport(ImageWidth(img), ImageHeight(img), width, height))

(***************************************************************************)
(* imageData.data: 4 bytes per pixel of the sw x sh rectangle read at      *)
(* (sx, sy).  A pixel outside the canvas is transparent black; a pixel     *)
(* inside it shows the image, drawn over the freshly cleared rectangle     *)
(* (nearest source pixel, no smoothing).                                   *)
(***************************************************************************)
DataAt(c, j) ==
    LET p == j \div 4
        col == p % c.sw
        row == p \div c.sw
        px == c.sx + col
        py == c.sy + row
    IN  IF px < 0 \/ px >= c.cw \/ py < 0 \/ py >= c.ch THEN 0
        ELSE IF j % 4 = 3 THEN 255
        ELSE ImagePixel(c.img, (col * ImageWidth(c.img)) \div c.sw,
                        (row * ImageHeight(c.img)) \div c.sh)[(j % 4) + 1]

\* data[i] for a number i: undefined (NaN in arithmetic) unless i is an
\* integer index inside the array
DataRead(c, i) ==
    IF ~DIsInt(i) \/ i.s < 0 THEN NaN
    ELSE IF DCmp(i, DFromInt(4 * c.sw * c.sh)) >= 0 THEN NaN
    ELSE DFromInt(DataAt(c, DToInt(i)))

(***************************************************************************)
(* Math.random.  The generator is a cyclic stream of quarters (k stands    *)
(* for k/4), read at position n; a point takes two values, the angle and   *)
(* then the radius.  Math.cos and Math.sin of Math.random() * Math.PI * 2  *)
(* are the doubles the platform returns at 0, pi/2, pi and 3pi/2.          *)
(***************************************************************************)
RandomStream == <<1, 2, 0, 3, 3, 2, 2, 0>>

MathRandom(n) == RandomStream[(n % Len(RandomStream)) + 1]

CosTurn(k) ==
    CASE k = 0 -> DFromInt(1)
      [] k = 1 -> [s |-> 1, m |-> <<7175, 3153, 8803, 1129>>, e |-> -106]
      [] k = 2 -> DFromInt(-1)
      [] OTHER -> [s |-> -1, m |-> <<1285, 6461, 2506, 847>>, e |-> -104]

SinTurn(k) ==
    CASE k = 0 -> DZero
      [] k = 1 -> DFromInt(1)
      [] k = 2 -> [s |-> 1, m |-> <<7175, 3153, 8803, 1129>>, e |-> -105]
      [] OTHER -> DFromInt(-1)

(***************************************************************************)
(* processChunk, lines 131-143: the classification of the grid point       *)
(* (x, y) of the run c, and the acceptance test.                           *)
(***************************************************************************)
\* lines 133-137, the three reads at index i
GrayscaleAt(c, i) ==
    getGrayscaleValue(DFromInt(c.alpha), DataRead(c, i),
                      DataRead(c, DAdd(i, DFromInt(1))),
                      DataRead(c, DAdd(i, DFromInt(2))))

PointGrayscale(c, x, y) ==
    GrayscaleAt(c, DMul(DAdd(DMul(DFromInt(y), c.drawWidth), DFromInt(x)), DFromInt(4)))

\* an accept test that takes no notice of the inverted flag
AcceptTestNotInverting(grayscale, inversive) == grayscale > 240

\* lines 138-141, on the point's classification
AcceptTest(grayscale, inversive) ==
    (grayscale > 240 /\ ~inversive) \/ (grayscale <= 240 /\ inversive)

\* the acceptance test with its polarity turned round
AcceptedWhenZero(c, x, y) == AcceptTest(PointGrayscale(c, x, y), ~c.inversive)

Accepted(c, x, y) == AcceptTest(PointGrayscale(c, x, y), c.inversive)

(***************************************************************************)
(* processChunk, lines 144-163: the dot and the exported line of an        *)
(* accepted grid point; n is the position of the random stream.  gx, gy    *)
(* record the grid point the dot came from.                                *)
(***************************************************************************)
\* lines 147-149, once angle and randomRadius are drawn (k is the angle in
\* quarter turns)
JitteredDot(c, x, y, k, randomRadius) ==
    [gx |-> x, gy |-> y,
     x |-> DAdd(DAdd(c.offsetX, DFromInt(x)), DMul(randomRadius, CosTurn(k))),
     y |-> DAdd(DAdd(c.offsetY, DFromInt(y)), DMul(randomRadius, SinTurn(k)))]

PointDot(c, x, y, n) ==
    JitteredDot(c, x, y, MathRandom(n),
                DMul(DDiv(DFromInt(MathRandom(n + 1)), DFromInt(4)),
                     DDiv(DFromInt(c.spacing), DFromInt(2))))

Round2(v) == DDiv(MathRound(DMul(v, DFromInt(100))), DFromInt(100))

PointLine(c, dot) ==
    FormatComma(Round2(DDiv(dot.x, DFromInt(c.scaleFactor))))
        \o " " \o
    FormatComma(Round2(DDiv(DSub(c.height, dot.y), DFromInt(c.scaleFactor))))

(***************************************************************************)
(* processChunk, lines 124-177: the two loops of one band.  acc carries    *)
(* the dots drawn, the positions pushed, positions.join('\n') and the      *)
(* position of the random stream.                                          *)
(***************************************************************************)
\* lines 150 and 160-162, for the dot and its line
PushLine(acc, dot, line) ==
    [dots |-> Append(acc.dots, dot),
     positions |-> Append(acc.positions, line),
     joined |-> IF acc.positions = << >> THEN line
                ELSE acc.joined \o "\n" \o line,
     n |-> (acc.n + 2) % Len(RandomStream)]

PushDot(c, acc, dot) == PushLine(acc, dot, PointLine(c, dot))

\* an accepted point that is dropped when its radius draw is zero
PushPointUnlessCentred(c, x, y, acc) ==
    IF MathRandom(acc.n + 1) = 0
    THEN [acc EXCEPT !.n = (acc.n + 2) % Len(RandomStream)]
    ELSE PushDot(c, acc, PointDot(c, x, y, acc.n))

PushPoint(c, x, y, acc) == PushDot(c, acc, PointDot(c, x, y, acc.n))

RECURSIVE ColumnLoop(_, _, _, _)
\* line 132, x += spacing, with the accumulator after the point (x, y)
ColumnNext(c, y, x, acc2) ==
    IF Len(acc2.dots) >= 0 THEN ColumnLoop(c, y, x + c.spacing, acc2) ELSE acc2

ColumnLoop(c, y, x, acc) ==
    IF ~DLt(DFromInt(x), c.drawWidth) THEN acc
    ELSE ColumnNext(c, y, x, IF Accepted(c, x, y) THEN PushPoint(c, x, y, acc) ELSE acc)

RECURSIVE RowLoop(_, _, _, _)
\* line 131, y += spacing, with the accumulator after the row y
RowNext(c, y, endY, acc2) ==
    IF Len(acc2.dots) >= 0 THEN RowLoop(c, y + c.spacing, endY, acc2) ELSE acc2

RowLoop(c, y, endY, acc) ==
    IF ~DLt(DFromInt(y), endY) THEN acc
    ELSE RowNext(c, y, endY, ColumnLoop(c, y, 0, acc))

\* lines 167-172: what the band leaves behind
BandOf(acc) ==
    [dots |-> acc.dots, positions |-> acc.positions,
     chunk |-> acc.joined \o "\n", n |-> acc.n]

EmptyBand(n) == [dots |-> << >>, positions |-> << >>, joined |-> "", n |-> n]

\* a band that does not stop at the end of its 100 rows
processChunkToTheEnd(c, chunkIndex, n) ==
    BandOf(RowLoop(c, chunkIndex * chunkSize, c.drawHeight, EmptyBand(n)))

processChunk(c, chunkIndex, n) ==
    BandOf(RowLoop(c, chunkIndex * chunkSize,
                   MathMin(DFromInt(chunkIndex * chunkSize + chunkSize), c.drawHeight),
                   EmptyBand(n)))

(***************************************************************************)
(* The Painter component.                                                  *)
(*   imageFile .. scaleFactor   the React state (lines 7-16)               *)
(*   memoScaleFactor   the scaleFactor inside the processImage closure,    *)
(*                     which useCallback(..., []) keeps from the first     *)
(*                     render (lines 82, 181)                              *)
(*   innerWidth, innerHeight    the window                                 *)
(*   canvasRef      the mounted canvas (0: none; the canvas is rendered    *)
(*                  only while imageFile is set, lines 213-224)            *)
(*   canvases       every canvas element created: its size and the dots    *)
(*                  on it, each dot a reference <<run, band, k>>           *)
(*   runs           every updateCanvas call that created an Image          *)
(*   rafQueue       the requestAnimationFrame callbacks, in order          *)
(*   ipc            the messages exchanged with the main process, in order *)
(*   pendingSave    'save' requests the main process has not answered      *)
(*   randomN        the position of the Math.random stream                 *)
(*   events         the number of user events handled so far               *)
(*   grayArgs, grayResult, fitArgs, fitResult                              *)
(*                  a direct call of getGrayscaleValue and of the fit      *)
(*                  transform, for the function-level properties           *)
(***************************************************************************)
VARIABLES imageFile, inversive, spacing, alpha, savePath, width, height,
          scaleFactor, memoScaleFactor, innerWidth, innerHeight, canvasRef,
          canvases, runs, rafQueue, ipc, pendingSave, randomN, events,
          grayArgs, grayResult, fitArgs, fitResult

reactVars == <<imageFile, inversive, spacing, alpha, savePath, width, height,
               scaleFactor>>

appVars == <<imageFile, inversive, spacing, alpha, savePath, width, height,
             scaleFactor, memoScaleFactor, innerWidth, innerHeight, canvasRef,
             canvases, runs, rafQueue, ipc, pendingSave, randomN,
             events>>

callVars == <<grayArgs, grayResult, fitArgs, fitResult>>

vars == <<appVars, callVars>>

Null == "null"

Undefined == "undefined"

\* JavaScript truthiness of a savePath / filePath value
Truthy(v) == v # Null /\ v # Undefined /\ v # ""

\* the number of user events (clicks, slider moves, uploads, resizes) followed
MaxEvents == 3

\* an entry of the ipc log; dir is "out" (sendMessage) or "in" (a received
\* event); run and band tell which band sent a 'save-chunk', image whether an
\* image was loaded when the message passed
Message(dir, channel, filePath, chunk, run, band, image) ==
    [dir |-> dir, channel |-> channel, filePath |-> filePath, chunk |-> chunk,
     run |-> run, band |-> band, image |-> image]

ClearFile(image) == Message("out", "clear-file", "", "", 0, 0, image)

\* an effect [savePath] that sends nothing
SavePathEffectSilent(log, image) == log

\* the first statement of the effect [savePath] (line 42)
SavePathEffect(log, image) == Append(log, ClearFile(image))

\* the React state as a record
State ==
    [imageFile |-> imageFile, inversive |-> inversive, spacing |-> spacing,
     alpha |-> alpha, savePath |-> savePath, width |-> width,
     height |-> height, scaleFactor |-> scaleFactor]

\* the dependencies of the second effect (line 52)
ConfigDeps(n) == <<n.imageFile, n.inversive, n.spacing, n.alpha, n.width, n.height>>

\* canvas.width = w; canvas.height = h: the canvas is resized and cleared
SetCanvasSize(cv, ref, w, h) ==
    [cv EXCEPT ![ref] = [w |-> ToLong(w), h |-> ToLong(h), dots |-> << >>]]

\* updateCanvas (lines 54-80) up to img.src: the run waits for img.onload
\* with the arguments the closure captured.  startedBy is the position in
\* ipc of the 'start-saving' message that caused it (0: a config change).
NewRun(n, ref, filePath, startedBy) ==
    [canvas |-> ref, img |-> n.imageFile, width |-> n.width, height |-> n.height,
     inversive |-> n.inversive, spacing |-> n.spacing, alpha |-> n.alpha,
     filePath |-> filePath, startedBy |-> startedBy,
     scaleFactorAtStart |-> n.scaleFactor,
     phase |-> "loading", ctx |-> << >>, bands |-> << >>,
     superseded |-> FALSE, staleBy |-> {}]

\* the runs that have a band continuation in rafQueue
Pending == {rafQueue[i].run : i \in DOMAIN rafQueue}

\* the runs once a new run has started for the given cause
Supersede(rs, cause) ==
    [r \in DOMAIN rs |->
        [rs[r] EXCEPT !.superseded = TRUE,
                      !.staleBy = IF r \in Pending THEN @ \cup {cause} ELSE @]]

(***************************************************************************)
(* One render with its effects, after a handler asked for the React state  *)
(* n, left the canvases as cv and the ipc log as log.                      *)
(*  - commit: the canvas is mounted iff n.imageFile is set; a canvas that  *)
(*    stays mounted gets the width and height attributes (lines 216-221).  *)
(*  - effect [savePath] (lines 41-48): 'clear-file', then for a truthy     *)
(*    path updateCanvas(savePath) and setSavePath(null); that update       *)
(*    renders again and the effect sends 'clear-file' once more.           *)
(*  - effect [imageFile, ...] (lines 50-52): updateCanvas().               *)
(***************************************************************************)
Render(n, cv, log) ==
    LET saveChanged == n.savePath # savePath
        configChanged == ConfigDeps(n) # ConfigDeps(State)
        mounted == n.imageFile # Null
        fresh == mounted /\ canvasRef = 0
        ref == IF ~mounted THEN 0 ELSE IF fresh THEN Len(cv) + 1 ELSE canvasRef
        cv1 == IF fresh
               THEN Append(cv, [w |-> ToLong(n.width), h |-> ToLong(n.height),
                                dots |-> << >>])
               ELSE IF mounted /\ <<n.width, n.height>> # <<width, height>>
               THEN SetCanvasSize(cv, ref, n.width, n.height)
               ELSE cv
        export == saveChanged /\ Truthy(n.savePath)
        update == (export \/ configChanged) /\ ref # 0
        starts == update /\ n.imageFile # Null
        log1 == IF saveChanged THEN SavePathEffect(log, mounted) ELSE log
    IN  /\ imageFile' = n.imageFile
        /\ inversive' = n.inversive
        /\ spacing' = n.spacing
        /\ alpha' = n.alpha
        /\ width' = n.width
        /\ height' = n.height
        /\ scaleFactor' = n.scaleFactor
        /\ savePath' = IF export THEN Null ELSE n.savePath
        /\ canvasRef' = ref
        /\ canvases' = IF update THEN SetCanvasSize(cv1, ref, n.width, n.height)
                       ELSE cv1
        /\ runs' = IF starts
                   THEN Append(Supersede(runs, IF export THEN "save" ELSE "config"),
                               NewRun(n, ref, IF export THEN n.savePath ELSE Null,
                                      IF export THEN Len(log) ELSE 0))
                   ELSE runs
        /\ ipc' = IF export THEN SavePathEffect(log1, mounted) ELSE log1
        /\ UNCHANGED <<memoScaleFactor, rafQueue, randomN, callVars>>

(***************************************************************************)
(* Inputs.                                                                 *)
(***************************************************************************)
Uploads == {"strip"}

Spacings == {8, 30}

Alphas == {50}

ScaleFactors == {1, 2}

Paths == {"a.txt", "b.txt"}

\* <<window.innerWidth, window.innerHeight>>
Windows == {<<10, 40>>, <<16, 150>>}

Seeds == {0}

\* a user event is followed while the bound allows
UserEvent == events < MaxEvents /\ events' = events + 1

\* clearRect(0, 0, w, h) on a canvas: the dots whose centre is inside go
ClearRect(cv, ref, w, h, rs) ==
    LET cleared(d) ==
            LET dot == rs[d[1]].bands[d[2]].dots[d[3]]
            IN  /\ dot.x.s > 0 /\ dot.y.s > 0
                /\ DLt(dot.x, w) /\ DLt(dot.y, h)
    IN  [cv EXCEPT ![ref].dots =
            IF cv[ref].w <= ToLong(w) /\ cv[ref].h <= ToLong(h) THEN << >>
            ELSE SelectSeq(@, LAMBDA d : ~cleared(d))]

\* handleImageUpload (lines 190-194); the file input exists only while no
\* image is set
HandleImageUpload(file) ==
    /\ imageFile = Null
    /\ UserEvent
    /\ UNCHANGED <<pendingSave, innerWidth, innerHeight>>
    /\ Render([State EXCEPT !.imageFile = file], canvases, ipc)

\* handleClear (lines 196-205)
HandleClear ==
    /\ imageFile # Null
    /\ UserEvent
    /\ UNCHANGED <<pendingSave, innerWidth, innerHeight>>
    /\ Render([State EXCEPT !.imageFile = Null],
              IF canvasRef # 0
              THEN ClearRect(canvases, canvasRef, width, height, runs)
              ELSE canvases,
              ipc)

\* the button "Инвертировать" (line 261)
ToggleInversive ==
    /\ UserEvent
    /\ UNCHANGED <<pendingSave, innerWidth, innerHeight>>
    /\ Render([State EXCEPT !.inversive = ~inversive], canvases, ipc)

\* the spacing slider (lines 229-237)
SetSpacing(v) ==
    /\ v # spacing
    /\ UserEvent
    /\ UNCHANGED <<pendingSave, innerWidth, innerHeight>>
    /\ Render([State EXCEPT !.spacing = v], canvases, ipc)

\* the alpha slider (lines 239-246)
SetAlpha(v) ==
    /\ v # alpha
    /\ UserEvent
    /\ UNCHANGED <<pendingSave, innerWidth, innerHeight>>
    /\ Render([State EXCEPT !.alpha = v], canvases, ipc)

\* the scaleFactor slider (lines 249-258): a render that runs no effect
SetScaleFactor(v) ==
    /\ v # scaleFactor
    /\ UserEvent
    /\ UNCHANGED <<pendingSave, innerWidth, innerHeight>>
    /\ Render([State EXCEPT !.scaleFactor = v], canvases, ipc)

\* the window is resized to w x h: handleResize (lines 19-27)
Resize(w, h) ==
    /\ <<w, h>> # <<innerWidth, innerHeight>>
    /\ innerWidth' = w
    /\ innerHeight' = h
    /\ UserEvent
    /\ UNCHANGED pendingSave
    /\ IF canvasRef = 0
       THEN UNCHANGED <<reactVars, memoScaleFactor, canvasRef, canvases, runs,
                        rafQueue, ipc, randomN, callVars>>
       ELSE LET cw == DFromInt(w)
                ch == DMul(DFromInt(h), DLit(8, 10))
                cv == SetCanvasSize(canvases, canvasRef, cw, ch)
            IN  Render([State EXCEPT !.width = DFromInt(cv[canvasRef].w),
                                     !.height = DFromInt(cv[canvasRef].h)],
                       cv, ipc)

\* a save click that asks for a path whether or not an image is loaded
HandleSaveUnguarded ==
    /\ UserEvent
    /\ pendingSave' = pendingSave + 1
    /\ ipc' = Append(ipc, Message("out", "save", "", "", 0, 0, imageFile # Null))
    /\ UNCHANGED <<reactVars, memoScaleFactor, innerWidth, innerHeight,
                   canvasRef, canvases, runs, rafQueue, randomN, callVars>>

\* handleSave (lines 184-188): the main process will answer with
\* 'start-saving'
HandleSave ==
    /\ imageFile # Null
    /\ UserEvent
    /\ pendingSave' = pendingSave + 1
    /\ ipc' = Append(ipc, Message("out", "save", "", "", 0, 0, TRUE))
    /\ UNCHANGED <<reactVars, memoScaleFactor, innerWidth, innerHeight,
                   canvasRef, canvases, runs, rafQueue, randomN, callVars>>

\* the listener of 'start-saving' (lines 31-33): arg is the chosen path, or
\* null / undefined when the dialog was cancelled
StartSaving(arg) ==
    /\ pendingSave > 0
    /\ pendingSave' = pendingSave - 1
    /\ UNCHANGED events
    /\ UNCHANGED <<innerWidth, innerHeight>>
    /\ Render([State EXCEPT !.savePath = arg], canvases,
              Append(ipc, Message("in", "start-saving", arg, "", 0, 0,
                                  imageFile # Null)))

(***************************************************************************)
(* One band of run r (processChunk, lines 124-177), given what it computed *)
(* (res): the dots go to the canvas of the run's context, a truthy         *)
(* filePath makes it send 'save-chunk', and a band that is not the last    *)
(* asks for an animation frame.  stale, superseded and mounted record for  *)
(* the band what had happened to its run when it executed.                 *)
(***************************************************************************)
\* a band that asks for two animation frames
RunBandAskingTwice(r, c, chunkIndex, queue, cv, rs, res) ==
    LET band == [index |-> chunkIndex, dots |-> res.dots,
                 positions |-> res.positions, stale |-> rs[r].staleBy,
                 superseded |-> rs[r].superseded,
                 mounted |-> canvasRef = rs[r].canvas]
        more == chunkIndex < c.totalChunks - 1
        b == Len(rs[r].bands) + 1
    IN  /\ runs' = [rs EXCEPT ![r].bands = Append(@, band),
                              ![r].phase = IF more THEN "running" ELSE "done"]
        /\ canvases' = [cv EXCEPT ![rs[r].canvas].dots =
                            @ \o [k \in 1..Len(res.dots) |-> <<r, b, k>>]]
        /\ ipc' = IF Truthy(c.filePath)
                  THEN Append(ipc, Message("out", "save-chunk", c.filePath,
                                           res.chunk, r, chunkIndex,
                                           imageFile # Null))
                  ELSE ipc
        /\ rafQueue' = IF more
                       THEN queue \o <<[run |-> r, chunkIndex |-> chunkIndex + 1],
                                       [run |-> r, chunkIndex |-> chunkIndex + 1]>>
                       ELSE queue
        /\ randomN' = res.n

RunBand(r, c, chunkIndex, queue, cv, rs, res) ==
    LET band == [index |-> chunkIndex, dots |-> res.dots,
                 positions |-> res.positions, stale |-> rs[r].staleBy,
                 superseded |-> rs[r].superseded,
                 mounted |-> canvasRef = rs[r].canvas]
        more == chunkIndex < c.totalChunks - 1
        b == Len(rs[r].bands) + 1
    IN  /\ runs' = [rs EXCEPT ![r].bands = Append(@, band),
                              ![r].phase = IF more THEN "running" ELSE "done"]
        /\ canvases' = [cv EXCEPT ![rs[r].canvas].dots =
                            @ \o [k \in 1..Len(res.dots) |-> <<r, b, k>>]]
        /\ ipc' = IF Truthy(c.filePath)
                  THEN Append(ipc, Message("out", "save-chunk", c.filePath,
                                           res.chunk, r, chunkIndex,
                                           imageFile # Null))
                  ELSE ipc
        /\ rafQueue' = IF more
                       THEN Append(queue, [run |-> r, chunkIndex |-> chunkIndex + 1])
                       ELSE queue
        /\ randomN' = res.n

\* img.onload of run r (lines 66-77): processImage, then processChunk(0)
\* (line 179); getImageData throwing ends the handler
LoadImage(r, c) ==
    LET run == runs[r]
        cv == ClearRect(canvases, run.canvas, run.width, run.height, runs)
        rs == [runs EXCEPT ![r].ctx = <<c>>]
    IN  IF c.fault
        THEN /\ runs' = [rs EXCEPT ![r].phase = "fault"]
             /\ canvases' = cv
             /\ UNCHANGED <<ipc, rafQueue, randomN>>
        ELSE RunBand(r, c, 0, rafQueue, cv, rs, processChunk(c, 0, randomN))

ImgLoad(r) ==
    /\ r \in DOMAIN runs
    /\ runs[r].phase = "loading"
    /\ LoadImage(r, processImage(canvases[runs[r].canvas], runs[r].img,
                                 runs[r].width, runs[r].height,
                                 runs[r].inversive, runs[r].spacing,
                                 runs[r].alpha, runs[r].filePath,
                                 memoScaleFactor))
    /\ UNCHANGED <<reactVars, memoScaleFactor, innerWidth, innerHeight,
                   canvasRef, pendingSave, events, callVars>>

\* the next animation frame callback (line 175)
RafCallback ==
    /\ rafQueue # << >>
    /\ LET r == rafQueue[1].run
           c == runs[r].ctx[1]
       IN  RunBand(r, c, rafQueue[1].chunkIndex, Tail(rafQueue), canvases, runs,
                   processChunk(c, rafQueue[1].chunkIndex, randomN))
    /\ UNCHANGED <<reactVars, memoScaleFactor, innerWidth, innerHeight,
                   canvasRef, pendingSave, events, callVars>>

\* the direct calls are not in use
CallsIdle ==
    /\ grayArgs = << >>
    /\ grayResult = << >>
    /\ fitArgs = << >>
    /\ fitResult = << >>

(***************************************************************************)
(* The component after its first render and its mount effects: no canvas,  *)
(* so handleResize and updateCanvas do nothing, and the [savePath] effect  *)
(* has sent its first 'clear-file'.                                        *)
(***************************************************************************)
AppInit(win, seed) ==
    /\ imageFile = Null
    /\ inversive = FALSE
    /\ spacing = 8
    /\ alpha = 128
    /\ savePath = Undefined
    /\ innerWidth = win[1]
    /\ innerHeight = win[2]
    /\ width = DFromInt(win[1])
    /\ height = DSub(DFromInt(win[2]), DMul(DFromInt(win[2]), DLit(3, 10)))
    /\ scaleFactor = 1
    /\ memoScaleFactor = 1
    /\ canvasRef = 0
    /\ canvases = << >>
    /\ runs = << >>
    /\ rafQueue = << >>
    /\ ipc = <<ClearFile(FALSE)>>
    /\ pendingSave = 0
    /\ events = 0
    /\ randomN = seed

Init ==
    /\ \E win \in Windows, seed \in Seeds : AppInit(win, seed)
    /\ CallsIdle

Next ==
    \/ \E file \in Uploads : HandleImageUpload(file)
    \/ HandleClear
    \/ ToggleInversive
    \/ \E v \in Spacings : SetSpacing(v)
    \/ \E v \in Alphas : SetAlpha(v)
    \/ \E v \in ScaleFactors : SetScaleFactor(v)
    \/ \E win \in Windows : Resize(win[1], win[2])
    \/ HandleSave
    \/ \E arg \in Paths \cup {Null, Undefined} : StartSaving(arg)
    \/ \E r \in DOMAIN runs : ImgLoad(r)
    \/ RafCallback

Spec == Init /\ [][Next]_vars

(***************************************************************************)
(* getGrayscaleValue called directly on integer channels and threshold.    *)
(***************************************************************************)
GrayThresholds == {0, 90, 128, 255}

GrayReds == {0, 1, 128, 255}

GrayGreens == {0, 113, 255}

GrayBlues == {0, 205, 255}

GrayInit ==
    /\ AppInit(<<10, 40>>, 0)
    /\ LiteralsAreNearest
    /\ \E t \in GrayThresholds, r \in GrayReds, g \in GrayGreens, b \in GrayBlues :
          grayArgs = <<[alpla |-> t, r |-> r, g |-> g, b |-> b]>>
    /\ grayResult = << >>
    /\ fitArgs = << >>
    /\ fitResult = << >>

CallGetGrayscaleValue ==
    /\ Len(grayArgs) = 1
    /\ grayResult = << >>
    /\ grayResult' = <<getGrayscaleValue(DFromInt(grayArgs[1].alpla),
                                        DFromInt(grayArgs[1].r),
                                        DFromInt(grayArgs[1].g),
                                        DFromInt(grayArgs[1].b))>>
    /\ UNCHANGED <<appVars, grayArgs, fitArgs, fitResult>>

SpecGray == GrayInit /\ [][CallGetGrayscaleValue]_vars

\* 299 R + 587 G + 114 B of the call, and 1000 times its threshold
GrayExact == 299 * grayArgs[1].r + 587 * grayArgs[1].g + 114 * grayArgs[1].b

GrayBar == 1000 * grayArgs[1].alpla

\* C9 (as the code has it): getGrayscaleValue returns 0 or 255; it returns
\* 255 whenever 299R + 587G + 114B > 1000 * threshold and 0 whenever
\* 299R + 587G + 114B < 1000 * threshold.  When the two are equal the result
\* is that of the comparison of doubles, which rounding may make 255.
C9_Classifier ==
    Len(grayResult) = 1 =>
        /\ grayResult[1] \in {0, 255}
        /\ GrayExact > GrayBar => grayResult[1] = 255
        /\ GrayExact < GrayBar => grayResult[1] = 0

\* a call above its threshold and a call below it have both returned
C9_Witness ==
    /\ Len(grayResult) = 1
    /\ grayResult[1] = 255
    /\ GrayExact > GrayBar
    /\ grayArgs[1].r # grayArgs[1].g
    /\ grayArgs[1].alpla > 0

\* C9 as stated: 255 if and only if 299R + 587G + 114B > 1000 * threshold
C9_AsStated ==
    Len(grayResult) = 1 =>
        /\ grayResult[1] \in {0, 255}
        /\ grayResult[1] = 255 <=> GrayExact > GrayBar

(***************************************************************************)
(* The fit-to-viewport transform called directly on positive integer       *)
(* image and viewport dimensions.                                          *)
(***************************************************************************)
FitMaxDim == 4

FitInit ==
    /\ AppInit(<<10, 40>>, 0)
    /\ \E iw \in 1..FitMaxDim, ih \in 1..FitMaxDim,
          vw \in 1..FitMaxDim, vh \in 1..FitMaxDim :
          fitArgs = <<[imgWidth |-> iw, imgHeight |-> ih, width |-> vw, height |-> vh]>>
    /\ fitResult = << >>
    /\ grayArgs = << >>
    /\ grayResult = << >>

CallFitToViewport ==
    /\ Len(fitArgs) = 1
    /\ fitResult = << >>
    /\ fitResult' = <<FitToViewport(fitArgs[1].imgWidth, fitArgs[1].imgHeight,
                                   DFromInt(fitArgs[1].width),
                                   DFromInt(fitArgs[1].height))>>
    /\ UNCHANGED <<appVars, fitArgs, grayArgs, grayResult>>

SpecFit == FitInit /\ [][CallFitToViewport]_vars

\* exact (unrounded) arithmetic on doubles, for stating the properties: the
\* product with an integer, the difference, the absolute value, a * 2^n
XTimes(a, k) == [s |-> a.s, m |-> BMulSmall(a.m, k), e |-> a.e]

XSub(a, b) ==
    LET e  == DMinExp(a, b)
        am == BShl(a.m, a.e - e)
        bm == BShl(b.m, b.e - e)
    IN  IF a.s # b.s THEN [s |-> a.s, m |-> BAdd(am, bm), e |-> e]
        ELSE IF BCmp(am, bm) >= 0 THEN [s |-> a.s, m |-> BSub(am, bm), e |-> e]
        ELSE [s |-> -a.s, m |-> BSub(bm, am), e |-> e]

XAbs(a) == [a EXCEPT !.s = 1]

XShift(a, n) == [a EXCEPT !.e = @ + n]

\* |a - b| <= 2^n * |c|
XWithin(a, b, n, c) == DCmp(XAbs(XSub(a, b)), XShift(XAbs(c), n)) <= 0

\* the branch the call took is the one the image's shape asks for
FitBranch ==
    LET a == fitArgs[1]
        f == fitResult[1]
    IN  /\ f.fitsWidth <=> a.imgWidth > a.imgHeight
        /\ f.fitsWidth => f.drawWidth = DFromInt(a.width)
        /\ ~f.fitsWidth => f.drawHeight = DFromInt(a.height)

\* C10 (as the code has it): the transform fits to the viewport width when
\* imageWidth > imageHeight and to the viewport height otherwise; the draw
\* rectangle keeps the aspect ratio and is centred up to the rounding of
\* doubles: |drawWidth * imageHeight - drawHeight * imageWidth| is at most
\* 2^-51 * drawHeight * imageWidth, and 2 * offset differs from viewport
\* size - draw size by at most 2^-52 of that difference.
C10_Fit ==
    Len(fitResult) = 1 =>
        LET a == fitArgs[1]
            f == fitResult[1]
        IN  /\ FitBranch
            /\ XWithin(XTimes(f.drawWidth, a.imgHeight),
                       XTimes(f.drawHeight, a.imgWidth), -51,
                       XTimes(f.drawHeight, a.imgWidth))
            /\ XWithin(XTimes(f.offsetX, 2), XSub(DFromInt(a.width), f.drawWidth),
                       -52, XSub(DFromInt(a.width), f.drawWidth))
            /\ XWithin(XTimes(f.offsetY, 2), XSub(DFromInt(a.height), f.drawHeight),
                       -52, XSub(DFromInt(a.height), f.drawHeight))

\* a call whose aspect ratio is not a double has returned, fitted to the
\* viewport height
C10_Witness ==
    /\ Len(fitResult) = 1
    /\ fitArgs[1].imgWidth = 1
    /\ fitArgs[1].imgHeight = 3
    /\ ~fitResult[1].fitsWidth
    /\ fitResult[1].drawHeight = DFromInt(fitArgs[1].height)

\* C10 as stated: drawWidth * imageHeight = drawHeight * imageWidth and
\* offset = (viewport size - draw size) / 2, as equalities of numbers
C10_AsStated ==
    Len(fitResult) = 1 =>
        LET a == fitArgs[1]
            f == fitResult[1]
        IN  /\ FitBranch
            /\ XWithin(XTimes(f.drawWidth, a.imgHeight),
                       XTimes(f.drawHeight, a.imgWidth), 0, DZero)
            /\ XWithin(XTimes(f.offsetX, 2), XSub(DFromInt(a.width), f.drawWidth),
                       0, DZero)
            /\ XWithin(XTimes(f.offsetY, 2), XSub(DFromInt(a.height), f.drawHeight),
                       0, DZero)

(***************************************************************************)
(* One run on its own: the component right after updateCanvas created the  *)
(* Image of a run (earlier runs, finished, are left out), for a bitmap, a  *)
(* viewport and a configuration drawn from the sets below; then img.onload *)
(* and the animation frames.                                               *)
(***************************************************************************)
SampleViewports == {<<10, 10>>, <<12, 104>>}

SampleSpacings == {8, 10, 30}

SampleSeeds == {0, 3}

SampleInit ==
    /\ \E img \in ImageNames, vp \in SampleViewports, inv \in BOOLEAN,
          sp \in SampleSpacings, path \in {Null, "a.txt"}, seed \in SampleSeeds :
          /\ imageFile = img
          /\ inversive = inv
          /\ spacing = sp
          /\ width = DFromInt(vp[1])
          /\ height = DFromInt(vp[2])
          /\ innerWidth = vp[1]
          /\ innerHeight = vp[2]
          /\ canvases = <<[w |-> vp[1], h |-> vp[2], dots |-> << >>]>>
          /\ runs = <<NewRun([imageFile |-> img, inversive |-> inv, spacing |-> sp,
                              alpha |-> 128, savePath |-> Null,
                              width |-> DFromInt(vp[1]), height |-> DFromInt(vp[2]),
                              scaleFactor |-> 1],
                             1, path, IF path = Null THEN 0 ELSE 3)>>
          /\ ipc = IF path = Null THEN <<ClearFile(FALSE)>>
                   ELSE <<ClearFile(FALSE),
                          Message("out", "save", "", "", 0, 0, TRUE),
                          Message("in", "start-saving", path, "", 0, 0, TRUE),
                          ClearFile(TRUE), ClearFile(TRUE)>>
          /\ randomN = seed
    /\ alpha = 128
    /\ savePath = Null
    /\ scaleFactor = 1
    /\ memoScaleFactor = 1
    /\ canvasRef = 1
    /\ rafQueue = << >>
    /\ pendingSave = 0
    /\ events = 1
    /\ CallsIdle

SampleNext ==
    \/ \E r \in DOMAIN runs : ImgLoad(r)
    \/ RafCallback

SpecSample == SampleInit /\ [][SampleNext]_vars

\* the rows band k of a run samples, and the columns every row samples
SampledRows(c, k) ==
    {y \in (chunkSize * k)..(chunkSize * k + chunkSize - 1) :
        (y - chunkSize * k) % c.spacing = 0 /\ DLt(DFromInt(y), c.drawHeight)}

SampledColumns(c) ==
    {x \in 0..DToInt(MathCeil(c.drawWidth)) :
        x % c.spacing = 0 /\ DLt(DFromInt(x), c.drawWidth)}

\* the 'save-chunk' messages of run r, in the order sent
ChunksOf(r) ==
    SelectSeq(ipc, LAMBDA m : m.channel = "save-chunk" /\ m.run = r)

\* the sampled points of band k a predicate accepts, as <<row, column>>
PointsWhere(c, k, Test(_, _, _)) ==
    {p \in SampledRows(c, k) \X SampledColumns(c) : Test(c, p[2], p[1])}

\* the grid points of a band's dots, in the order drawn
DotPoints(band) == [i \in DOMAIN band.dots |-> <<band.dots[i].gy, band.dots[i].gx>>]

\* strictly increasing by row, then by column
RowMajor(ps) ==
    \A i \in 1..(Len(ps) - 1) :
        \/ ps[i][1] < ps[i + 1][1]
        \/ ps[i][1] = ps[i + 1][1] /\ ps[i][2] < ps[i + 1][2]

RECURSIVE JoinLines(_, _)
JoinLines(lines, i) ==
    IF i > Len(lines) THEN "" ELSE lines[i] \o "\n" \o JoinLines(lines, i + 1)

\* Band b (index k = b - 1) of run r holds exactly the accepted sampled
\* points of rows [100k, min(100(k+1), drawHeight)), once each, in row-major
\* order, a line per point, and its chunk is those lines
BandIsItsRows(r, b) ==
    LET c == runs[r].ctx[1]
        band == runs[r].bands[b]
        ps == DotPoints(band)
    IN  /\ band.index = b - 1
        /\ RowMajor(ps)
        /\ {ps[i] : i \in DOMAIN ps} = PointsWhere(c, b - 1, Accepted)
        /\ \A i \in DOMAIN ps :
              /\ chunkSize * (b - 1) <= ps[i][1]
              /\ ps[i][1] < chunkSize * b
              /\ DLt(DFromInt(ps[i][1]), c.drawHeight)
        /\ Len(band.positions) = Len(band.dots)
        /\ \A i \in DOMAIN ps : band.positions[i] = PointLine(c, band.dots[i])
        /\ Truthy(c.filePath) =>
              /\ Len(ChunksOf(r)) = Len(runs[r].bands)
              /\ ChunksOf(r)[b].band = b - 1
              /\ ChunksOf(r)[b].chunk =
                    IF band.positions = << >> THEN "\n"
                    ELSE JoinLines(band.positions, 1)

\* C7: in an export run the lines of chunk k are exactly the accepted points
\* the run samples in rows 100k <= y < min(100(k+1), drawHeight), one line
\* per point, by row and then by column; the chunks in band order give every
\* accepted point of the run once, in row-major order.
C7_ChunkRows ==
    \A r \in DOMAIN runs :
        Truthy(runs[r].filePath) =>
            \A b \in DOMAIN runs[r].bands : BandIsItsRows(r, b)

\* an export run of two bands has finished, with lines in both chunks
C7_Witness ==
    \E r \in DOMAIN runs :
        /\ Truthy(runs[r].filePath)
        /\ runs[r].phase = "done"
        /\ Len(runs[r].bands) = 2
        /\ Len(ChunksOf(r)) = 2
        /\ Len(runs[r].bands[1].positions) > 1
        /\ Len(runs[r].bands[2].positions) > 1

\* the sampled points of band k whose classifier output is v
ClassifiedAs255(c, x, y) == PointGrayscale(c, x, y) = 255

ClassifiedAs0(c, x, y) == PointGrayscale(c, x, y) = 0

\* the run of the examples: a 10x10 bitmap of one colour, threshold 128,
\* spacing 10, not inverted, viewport 10x10, exporting
ExampleRun(r, img) ==
    /\ runs[r].img = img
    /\ runs[r].width = DFromInt(10)
    /\ runs[r].height = DFromInt(10)
    /\ runs[r].spacing = 10
    /\ runs[r].alpha = 128
    /\ ~runs[r].inversive
    /\ Truthy(runs[r].filePath)
    /\ runs[r].phase = "done"

\* C8 (as the code has it): with inverted = false a grid point whose
\* classifier output is 255 is accepted and produces one drawn dot and one
\* exported line, and a grid point whose classifier output is 0 is rejected
\* and produces none; so the all-white 10x10 run emits one chunk with one
\* line and the solid-black 10x10 run emits one empty chunk.
C8_Polarity ==
    \A r \in DOMAIN runs :
        /\ ~runs[r].inversive =>
              \A b \in DOMAIN runs[r].bands :
                  LET ps == DotPoints(runs[r].bands[b])
                  IN  /\ {ps[i] : i \in DOMAIN ps}
                            = PointsWhere(runs[r].ctx[1], b - 1, ClassifiedAs255)
                      /\ Len(runs[r].bands[b].positions) = Len(ps)
                      /\ \A i, j \in DOMAIN ps : ps[i] = ps[j] => i = j
        /\ ExampleRun(r, "white10") =>
              /\ Len(ChunksOf(r)) = 1
              /\ Len(runs[r].bands[1].positions) = 1
              /\ ChunksOf(r)[1].chunk = runs[r].bands[1].positions[1] \o "\n"
        /\ ExampleRun(r, "black10") =>
              /\ Len(ChunksOf(r)) = 1
              /\ runs[r].bands[1].positions = << >>
              /\ ChunksOf(r)[1].chunk = "\n"

\* both example runs of one state space: the white one has finished with
\* its one line
C8_Witness ==
    \E r \in DOMAIN runs :
        /\ ExampleRun(r, "white10")
        /\ Len(runs[r].bands) = 1
        /\ Len(runs[r].bands[1].dots) = 1
        /\ PointGrayscale(runs[r].ctx[1], 0, 0) = 255

\* C8 as stated: with inverted = false the points classified 0 are the ones
\* accepted; the all-white run emits one empty chunk and the solid-black
\* run one chunk with one line
C8_AsStated ==
    \A r \in DOMAIN runs :
        /\ ~runs[r].inversive =>
              \A b \in DOMAIN runs[r].bands :
                  LET ps == DotPoints(runs[r].bands[b])
                  IN  {ps[i] : i \in DOMAIN ps}
                          = PointsWhere(runs[r].ctx[1], b - 1, ClassifiedAs0)
        /\ ExampleRun(r, "white10") =>
              /\ Len(ChunksOf(r)) = 1
              /\ ChunksOf(r)[1].chunk = "\n"
        /\ ExampleRun(r, "black10") =>
              /\ Len(ChunksOf(r)) = 1
              /\ Len(runs[r].bands[1].positions) = 1

\* ceil(drawHeight / 100) of a run, from the fit of its image to its viewport
ChunksDue(r) ==
    DToInt(MathCeil(DDiv(FitToViewport(ImageWidth(runs[r].img),
                                       ImageHeight(runs[r].img),
                                       runs[r].width, runs[r].height).drawHeight,
                         DFromInt(100))))

\* C6: every export run that is not superseded emits exactly
\* ceil(drawHeight / 100) save-chunk messages, one per band, and a band with
\* no accepted point still emits a chunk that is a single newline.  Stated
\* of the runs that have nothing left to do.
C6_AsStated ==
    \A r \in DOMAIN runs :
        (/\ Truthy(runs[r].filePath)
         /\ ~runs[r].superseded
         /\ runs[r].phase \in {"done", "fault"}) =>
            /\ Len(ChunksOf(r)) = ChunksDue(r)
            /\ \A k \in DOMAIN ChunksOf(r) :
                  /\ ChunksOf(r)[k].band = k - 1
                  /\ runs[r].bands[k].positions = << >> =>
                        ChunksOf(r)[k].chunk = "\n"

\* the same of the runs whose getImageData did not throw
C6_WhenSampled ==
    \A r \in DOMAIN runs :
        (/\ Truthy(runs[r].filePath)
         /\ ~runs[r].superseded
         /\ runs[r].phase = "done") =>
            /\ Len(ChunksOf(r)) = ChunksDue(r)
            /\ \A k \in DOMAIN ChunksOf(r) :
                  /\ ChunksOf(r)[k].band = k - 1
                  /\ runs[r].bands[k].positions = << >> =>
                        ChunksOf(r)[k].chunk = "\n"

(***************************************************************************)
(* Properties of the component's runs and messages.                        *)
(***************************************************************************)
\* the positions in ipc of the 'save-chunk' messages
ChunkIndexes == {i \in DOMAIN ipc : ipc[i].channel = "save-chunk"}

\* the positions in ipc of the 'start-saving' messages received
Receipts == {i \in DOMAIN ipc : ipc[i].channel = "start-saving"}

\* C1 as stated: a band of a run that executes after a configuration change
\* started a new run, the earlier run having had a band continuation
\* pending, draws nothing and emits no save-chunk message.
C1_AsStated ==
    \A r \in DOMAIN runs : \A b \in DOMAIN runs[r].bands :
        "config" \in runs[r].bands[b].stale =>
            /\ runs[r].bands[b].dots = << >>
            /\ \A i \in ChunkIndexes : ~(ipc[i].run = r /\ ipc[i].band = b - 1)

\* C2 as stated: the save-chunk messages of a destination path are in
\* strictly increasing band order, and between two chunks of one run there
\* is no chunk of another run for that path.
C2_AsStated ==
    \A i, j \in ChunkIndexes :
        (i < j /\ ipc[i].filePath = ipc[j].filePath /\ ipc[i].run = ipc[j].run) =>
            /\ ipc[i].band < ipc[j].band
            /\ \A k \in ChunkIndexes :
                  (i < k /\ k < j /\ ipc[k].filePath = ipc[i].filePath) =>
                      ipc[k].run = ipc[i].run

\* the runs a received 'start-saving' message started
StartedBy(i) == {r \in DOMAIN runs : runs[r].startedBy = i}

\* C3 as stated: with an image loaded, a received path starts exactly one
\* run, from band 0, whose save-chunk messages carry that path, and no other
\* run emits save-chunk; a cancelled prompt (null or no path delivered)
\* starts no run and is followed by no clear-file and no save-chunk.
C3_AsStated ==
    /\ \A i \in Receipts :
          IF Truthy(ipc[i].filePath)
          THEN ipc[i].image =>
                  /\ Cardinality(StartedBy(i)) = 1
                  /\ \A r \in StartedBy(i) :
                        /\ runs[r].filePath = ipc[i].filePath
                        /\ \A b \in DOMAIN runs[r].bands :
                              runs[r].bands[b].index = b - 1
          ELSE /\ StartedBy(i) = {}
               /\ i < Len(ipc) => ipc[i + 1].channel \notin {"clear-file", "save-chunk"}
    /\ \A j \in ChunkIndexes :
          /\ runs[ipc[j].run].startedBy \in Receipts
          /\ ipc[j].filePath = ipc[runs[ipc[j].run].startedBy].filePath

\* the part of C3 about received paths alone
C3_PathStartsOneRun ==
    /\ \A i \in Receipts :
          (Truthy(ipc[i].filePath) /\ ipc[i].image) =>
              /\ Cardinality(StartedBy(i)) = 1
              /\ \A r \in StartedBy(i) :
                    /\ runs[r].filePath = ipc[i].filePath
                    /\ \A b \in DOMAIN runs[r].bands :
                          runs[r].bands[b].index = b - 1
    /\ \A j \in ChunkIndexes :
          /\ runs[ipc[j].run].startedBy \in Receipts
          /\ ipc[j].filePath = ipc[runs[ipc[j].run].startedBy].filePath

\* C4: for every export run a clear-file message is sent after the path
\* that started the run was received and before the run's band-0 chunk.
C4_ClearBeforeChunk ==
    \A j \in ChunkIndexes :
        ipc[j].band = 0 =>
            \E i \in Receipts, k \in DOMAIN ipc :
                /\ i = runs[ipc[j].run].startedBy
                /\ ipc[i].filePath = ipc[j].filePath
                /\ i < k /\ k < j
                /\ ipc[k].channel = "clear-file"
                /\ ipc[k].dir = "out"

\* an export run has sent its band-0 chunk
C4_Witness ==
    \E j \in ChunkIndexes :
        /\ ipc[j].band = 0
        /\ ipc[j].dir = "out"
        /\ runs[ipc[j].run].startedBy \in Receipts

\* C5 as stated: every exported line of an export run is the dot's position
\* divided by the scaleFactor the user had configured when the run started
\* (vertical from viewportHeight - drawY), rounded to 2 decimals.
C5_AsStated ==
    \A r \in DOMAIN runs :
        Truthy(runs[r].filePath) =>
            \A b \in DOMAIN runs[r].bands : \A i \in DOMAIN runs[r].bands[b].dots :
                runs[r].bands[b].positions[i] =
                    PointLine([runs[r].ctx[1] EXCEPT
                                  !.scaleFactor = runs[r].scaleFactorAtStart],
                              runs[r].bands[b].dots[i])

\* the same while the user leaves scaleFactor at its initial value
C5_AtInitialScale ==
    \A r \in DOMAIN runs :
        (Truthy(runs[r].filePath) /\ runs[r].scaleFactorAtStart = 1) =>
            \A b \in DOMAIN runs[r].bands : \A i \in DOMAIN runs[r].bands[b].dots :
                runs[r].bands[b].positions[i] =
                    PointLine([runs[r].ctx[1] EXCEPT !.scaleFactor = 1],
                              runs[r].bands[b].dots[i])

(***************************************************************************)
(* A run against the same run made again with other random draws.          *)
(***************************************************************************)
\* the positions at which a band may find the random stream
StreamPositions == 0..(Len(RandomStream) - 1)

\* band k of the run c made again with the random stream at position n
BandAgain(c, k, n) == processChunk(c, k, n)

\* two bands hold the same grid points in the same order, a line for each
SameAccepted(band, again) ==
    /\ DotPoints(band) = DotPoints(again)
    /\ Len(band.positions) = Len(again.positions)

\* C11: a run and the same run (same bitmap, fit, spacing, threshold and
\* inverted flag) made again with any other random draws accept the same
\* grid coordinates in the same order, band by band; the draws change only
\* where a point is drawn and exported.  Stated of each band as soon as it
\* has executed.
C11_SameGridPoints ==
    \A r \in DOMAIN runs : \A n \in StreamPositions :
        runs[r].bands # << >> =>
            SameAccepted(runs[r].bands[Len(runs[r].bands)],
                         BandAgain(runs[r].ctx[1], Len(runs[r].bands) - 1, n))

\* the second making puts dot i elsewhere and exports another line for it
MovedDot(band, again, i) ==
    /\ again.dots[i].x # band.dots[i].x
    /\ again.positions[i] # band.positions[i]

\* a band with several dots whose second making, with other draws, moves
\* one of them
C11_Witness ==
    \E r \in DOMAIN runs : \E b \in DOMAIN runs[r].bands : \E n \in StreamPositions :
        /\ Len(runs[r].bands[b].dots) > 1
        /\ \E i \in DOMAIN runs[r].bands[b].dots :
              MovedDot(runs[r].bands[b], BandAgain(runs[r].ctx[1], b - 1, n), i)

(***************************************************************************)
(* Clear, and the bands that execute while no image is loaded.             *)
(***************************************************************************)
\* the dots all bands of all runs have drawn, as <<run, band, k>>
DotsDrawn(rs) ==
    UNION {UNION {{<<r, b, i>> : i \in DOMAIN rs[r].bands[b].dots} :
                     b \in DOMAIN rs[r].bands} : r \in DOMAIN rs}

\* the number of 'save-chunk' messages in a log
ChunksSent(log) == Len(SelectSeq(log, LAMBDA m : m.channel = "save-chunk"))

\* C12 as stated: clear discards the image and unmounts the drawing surface,
\* and while no image is loaded no band of a run started earlier draws a dot
\* or emits a save-chunk message.
C12_AsStated ==
    [][/\ (imageFile # Null /\ imageFile' = Null) => canvasRef' = 0
       /\ imageFile = Null =>
             /\ DotsDrawn(runs') = DotsDrawn(runs)
             /\ ChunksSent(ipc') = ChunksSent(ipc)]_vars

\* the part of C12 about clear itself: the image is discarded, the canvas
\* is unmounted, and no run starts while no image is loaded
C12_ClearDiscards ==
    [][/\ (imageFile # Null /\ imageFile' = Null) => canvasRef' = 0
       /\ imageFile' = Null => Len(runs') = Len(runs)]_vars

(***************************************************************************)
(* The component with a window so low among its windows that the fitted    *)
(* strip is less than a pixel wide there.                                  *)
(***************************************************************************)
LowWindows == {<<16, 150>>, <<10, 12>>}

LowInit ==
    /\ \E win \in LowWindows : AppInit(win, 0)
    /\ CallsIdle

LowNext ==
    \/ \E file \in Uploads : HandleImageUpload(file)
    \/ HandleClear
    \/ ToggleInversive
    \/ \E v \in Spacings : SetSpacing(v)
    \/ \E v \in Alphas : SetAlpha(v)
    \/ \E v \in ScaleFactors : SetScaleFactor(v)
    \/ \E win \in LowWindows : Resize(win[1], win[2])
    \/ HandleSave
    \/ \E arg \in Paths \cup {Null, Undefined} : StartSaving(arg)
    \/ \E r \in DOMAIN runs : ImgLoad(r)
    \/ RafCallback

SpecLow == LowInit /\ [][LowNext]_vars

\* the configuration the second effect depends on, as a run holds it
RunConfig(run) ==
    <<run.img, run.inversive, run.spacing, run.alpha, run.width, run.height>>

\* a step that changes spacing, threshold, inversion, viewport size or
\* image and leaves an image loaded starts one run, which holds the new
\* values
ChangeStartsRun ==
    (/\ imageFile' # Null
     /\ <<imageFile, inversive, spacing, alpha, width, height>>'
           # <<imageFile, inversive, spacing, alpha, width, height>>) =>
        /\ Len(runs') = Len(runs) + 1
        /\ RunConfig(runs'[Len(runs')])
              = <<imageFile, inversive, spacing, alpha, width, height>>'
        /\ runs'[Len(runs')].phase = "loading"
        /\ runs'[Len(runs')].bands = << >>

\* run n has executed band 0 first, sampling with the values it holds
SampledFromBandZero(n) ==
    /\ runs[n].bands # << >>
    /\ runs[n].bands[1].index = 0
    /\ runs[n].ctx[1].spacing = runs[n].spacing
    /\ runs[n].ctx[1].alpha = runs[n].alpha
    /\ runs[n].ctx[1].inversive = runs[n].inversive
    /\ runs[n].ctx[1].width = runs[n].width
    /\ runs[n].ctx[1].height = runs[n].height
    /\ runs[n].ctx[1].img = runs[n].img

\* C13 as stated: with an image loaded, every change of spacing, threshold,
\* inversion, viewport size or image starts a fresh run that begins at band
\* 0 and samples with the new values.  Stated so that a finite run refutes
\* it: a run whose image has loaded has executed band 0 first, with the
\* values the change gave it.
C13_AsStated ==
    \A n \in DOMAIN runs :
        runs[n].phase # "loading" => SampledFromBandZero(n)

\* the same, but for the runs whose getImageData throws
C13_UnlessFault ==
    \A n \in DOMAIN runs :
        runs[n].phase \notin {"loading", "fault"} => SampledFromBandZero(n)

\* every change starts a run that waits for its image with the new values
C13_ChangeStartsRun == [][ChangeStartsRun]_vars

(***************************************************************************)
(* The order of the bands.                                                 *)
(***************************************************************************)
\* the continuations of run r in the animation frame queue
ContinuationsOf(r) == SelectSeq(rafQueue, LAMBDA q : q.run = r)

\* the bands of run r so far are bands 0, 1, 2, ... once each, and the
\* band its continuation will execute is the next one
BandsInOrder(r) ==
    /\ \A b \in DOMAIN runs[r].bands : runs[r].bands[b].index = b - 1
    /\ \A i \in DOMAIN ContinuationsOf(r) :
          ContinuationsOf(r)[i].chunkIndex = Len(runs[r].bands)

\* a step executes at most one band, whole: one run at most gets a band,
\* and it gets exactly one, with all its dots and lines
OneBandAtATime ==
    /\ \A r \in DOMAIN runs :
          /\ Len(runs'[r].bands) \in {Len(runs[r].bands), Len(runs[r].bands) + 1}
          /\ SubSeq(runs'[r].bands, 1, Len(runs[r].bands)) = runs[r].bands
    /\ Cardinality({r \in DOMAIN runs :
                       Len(runs'[r].bands) > Len(runs[r].bands)}) <= 1

\* C14: within each run the bands execute in the order 0, 1, 2, ..., each
\* once and after its predecessor; a band executes as one atomic step, so
\* no two bands, of one run or of two, are partway through at once.
C14_BandsInOrder ==
    /\ [](\A r \in DOMAIN runs : BandsInOrder(r))
    /\ [][OneBandAtATime]_vars

\* two runs have both executed their two bands, the first run's second band
\* after the second run had started
C14_Witness ==
    \E r, s \in DOMAIN runs :
        /\ r < s
        /\ Len(runs[r].bands) = 2
        /\ Len(runs[s].bands) = 2
        /\ runs[r].bands[2].superseded
        /\ runs[r].bands[2].dots # << >>

(***************************************************************************)
(* Termination of a run, stated so that a finite run refutes it: a run     *)
(* that has not executed its last band has its next step waiting (its      *)
(* image's onload, or one animation frame callback for the next band), and *)
(* the animation frame queue is served in order.                           *)
(***************************************************************************)
\* the run has executed bands 0 .. n - 1 of its ceil(drawHeight / 100) and
\* has asked for a continuation iff one is due
OnItsWay(r) ==
    /\ Len(ContinuationsOf(r)) <= 1
    /\ Len(runs[r].bands) <= ChunksDue(r)
    /\ Len(runs[r].bands) < ChunksDue(r) =>
          /\ Len(ContinuationsOf(r)) = 1
          /\ ContinuationsOf(r)[1].chunkIndex = Len(runs[r].bands)
    /\ Len(runs[r].bands) = ChunksDue(r) =>
          /\ ContinuationsOf(r) = << >>
          /\ runs[r].phase = "done"
          /\ runs[r].bands[ChunksDue(r)].index = ChunksDue(r) - 1

\* C15 as stated: every started run terminates: it executes its last band,
\* index ceil(drawHeight / 100) - 1; it schedules a continuation after
\* every band but the last and none after the last, so that it has at most
\* one continuation pending at any time and none after completion.
C15_AsStated ==
    \A r \in DOMAIN runs :
        /\ runs[r].phase = "loading" => ContinuationsOf(r) = << >>
        /\ runs[r].phase # "loading" =>
              /\ runs[r].bands # << >>
              /\ OnItsWay(r)

\* the same, but for the runs whose getImageData throws: they stop with no
\* band executed and nothing pending
C15_UnlessFault ==
    \A r \in DOMAIN runs :
        /\ runs[r].phase = "loading" => ContinuationsOf(r) = << >>
        /\ runs[r].phase = "fault" =>
              runs[r].bands = << >> /\ ContinuationsOf(r) = << >>
        /\ runs[r].phase \notin {"loading", "fault"} =>
              /\ runs[r].bands # << >>
              /\ OnItsWay(r)

(***************************************************************************)
(* The grid of a whole run.                                                *)
(***************************************************************************)
\* the rows k * spacing below drawHeight
UniformRows(c) ==
    {y \in 0..DToInt(MathCeil(c.drawHeight)) :
        y % c.spacing = 0 /\ DLt(DFromInt(y), c.drawHeight)}

\* the grid points of all the dots of run r
RunPoints(r) ==
    UNION {{<<runs[r].bands[b].dots[i].gy, runs[r].bands[b].dots[i].gx>> :
               i \in DOMAIN runs[r].bands[b].dots} : b \in DOMAIN runs[r].bands}

\* the points of the uniform grid that the accept test takes
UniformAccepted(c) ==
    {p \in UniformRows(c) \X SampledColumns(c) : Accepted(c, p[2], p[1])}

\* C16 as stated: the grid of a whole run is uniform with step spacing in
\* both axes, rows {k * spacing < drawHeight} and columns
\* {k * spacing < drawWidth}, also across band boundaries and for a spacing
\* that does not divide 100: the points a finished run has drawn are the
\* accepted points of that grid.
C16_AsStated ==
    \A r \in DOMAIN runs :
        runs[r].phase = "done" => RunPoints(r) = UniformAccepted(runs[r].ctx[1])

\* the same for the runs of one band and for a spacing that divides 100
C16_WhenBandsAlign ==
    \A r \in DOMAIN runs :
        (/\ runs[r].phase = "done"
         /\ Len(runs[r].bands) = 1 \/ chunkSize % runs[r].spacing = 0) =>
            RunPoints(r) = UniformAccepted(runs[r].ctx[1])

(***************************************************************************)
(* The accept rule, point by point.                                        *)
(***************************************************************************)
\* the rule as the specification words it, on the classifier's output for
\* the pixel sampled at (x, y)
RuleAccepts(c, x, y) ==
    \/ PointGrayscale(c, x, y) > 240 /\ ~c.inversive
    \/ PointGrayscale(c, x, y) <= 240 /\ c.inversive

\* the dots of a band that came from the grid point p
DotsAt(band, p) == {i \in DOMAIN band.dots : <<band.dots[i].gy, band.dots[i].gx>> = p}

\* C17: a grid point produces a drawn dot, and in an export run exactly one
\* exported line, iff (grayscale > 240 and not inverted) or (grayscale <= 240
\* and inverted), grayscale being the classifier's output for the sampled
\* pixel; a rejected grid point produces no drawing and no line.
C17_AcceptRule ==
    \A r \in DOMAIN runs : \A b \in DOMAIN runs[r].bands :
        /\ \A p \in SampledRows(runs[r].ctx[1], b - 1) \X SampledColumns(runs[r].ctx[1]) :
              Cardinality(DotsAt(runs[r].bands[b], p))
                 = IF RuleAccepts(runs[r].ctx[1], p[2], p[1]) THEN 1 ELSE 0
        /\ Len(runs[r].bands[b].positions) = Len(runs[r].bands[b].dots)
        /\ Truthy(runs[r].filePath) =>
              ChunksOf(r)[b].chunk =
                 IF runs[r].bands[b].positions = << >> THEN "\n"
                 ELSE JoinLines(runs[r].bands[b].positions, 1)
        /\ ~Truthy(runs[r].filePath) => ChunksOf(r) = << >>

\* an inverted export run has executed a band in which some grid points
\* were accepted and others rejected
C17_Witness ==
    \E r \in DOMAIN runs : \E b \in DOMAIN runs[r].bands :
        /\ runs[r].inversive
        /\ Truthy(runs[r].filePath)
        /\ Len(runs[r].bands[b].dots) > 1
        /\ \E p \in SampledRows(runs[r].ctx[1], b - 1) \X SampledColumns(runs[r].ctx[1]) :
              /\ DotsAt(runs[r].bands[b], p) = {}
              /\ PointGrayscale(runs[r].ctx[1], p[2], p[1]) = 255

(***************************************************************************)
(* The handlers while no image is loaded.                                  *)
(***************************************************************************)
\* a step of a handler of the user's events or of 'start-saving'
HandlerStep == events' # events \/ pendingSave' # pendingSave

\* the number of messages of a channel in a log
SentOn(log, channel) == Len(SelectSeq(log, LAMBDA m : m.channel = channel))

\* the runs whose getImageData has thrown
Faulted(rs) == {r \in DOMAIN rs : rs[r].phase = "fault"}

\* C18: while no image is loaded, a configuration change, a resize, a save
\* click or a received path starts no run, draws no dot, sends no 'save'
\* request, emits no save-chunk message and raises no fault.
C18_NoImageNoOp ==
    [][(imageFile = Null /\ imageFile' = Null /\ HandlerStep) =>
          /\ runs' = runs
          /\ DotsDrawn(runs') = DotsDrawn(runs)
          /\ canvases' = canvases
          /\ rafQueue' = rafQueue
          /\ SentOn(ipc', "save") = SentOn(ipc, "save")
          /\ SentOn(ipc', "save-chunk") = SentOn(ipc, "save-chunk")
          /\ Faulted(runs') = Faulted(runs)]_vars

\* a path was received while no image was loaded (the image was cleared
\* after the save click) and started no run
C18_Witness ==
    /\ imageFile = Null
    /\ \E i \in Receipts :
          /\ ~ipc[i].image
          /\ Truthy(ipc[i].filePath)
          /\ StartedBy(i) = {}
    /\ SentOn(ipc, "save-chunk") = 0

(***************************************************************************)
(* The fitted rectangle against the viewport.                              *)
(***************************************************************************)
\* the rectangle of the call lies inside the viewport
InsideViewport ==
    /\ DLe(fitResult[1].drawWidth, DFromInt(fitArgs[1].width))
    /\ DLe(fitResult[1].drawHeight, DFromInt(fitArgs[1].height))
    /\ DLe(DZero, fitResult[1].offsetX)
    /\ DLe(DZero, fitResult[1].offsetY)

\* C19 as stated: for any positive image and viewport dimensions the fitted
\* rectangle lies inside the viewport: drawWidth <= viewportWidth,
\* drawHeight <= viewportHeight, offsetX >= 0 and offsetY >= 0.
C19_AsStated == Len(fitResult) = 1 => InsideViewport

\* what holds instead: the side the image is fitted to fills the viewport
\* with offset 0, and the rectangle is inside the viewport when the other
\* side has room: imageHeight * viewportWidth <= imageWidth * viewportHeight
\* for an image wider than tall, the reverse for the others
C19_FittedSide ==
    Len(fitResult) = 1 =>
        /\ fitResult[1].fitsWidth =>
              /\ fitResult[1].drawWidth = DFromInt(fitArgs[1].width)
              /\ fitResult[1].offsetX = DZero
              /\ fitArgs[1].imgHeight * fitArgs[1].width
                    <= fitArgs[1].imgWidth * fitArgs[1].height => InsideViewport
              /\ fitArgs[1].imgHeight * fitArgs[1].width
                    > fitArgs[1].imgWidth * fitArgs[1].height => ~InsideViewport
        /\ ~fitResult[1].fitsWidth =>
              /\ fitResult[1].drawHeight = DFromInt(fitArgs[1].height)
              /\ fitResult[1].offsetY = DZero
              /\ fitArgs[1].imgWidth * fitArgs[1].height
                    <= fitArgs[1].imgHeight * fitArgs[1].width => InsideViewport
              /\ fitArgs[1].imgWidth * fitArgs[1].height
                    > fitArgs[1].imgHeight * fitArgs[1].width => ~InsideViewport

(***************************************************************************)
(* The fixed cutoff stacked on the classifier.                             *)
(***************************************************************************)
\* the test of lines 138-141 with another constant in the place of 240
AcceptTestWithCutoff(grayscale, inverted, cutoff) ==
    (grayscale > cutoff /\ ~inverted) \/ (grayscale <= cutoff /\ inverted)

\* 0.299 R + 0.587 G + 0.114 B > threshold for the call, as doubles
AboveThreshold ==
    DGt(Luminance(DFromInt(grayArgs[1].r), DFromInt(grayArgs[1].g),
                  DFromInt(grayArgs[1].b)),
        DFromInt(grayArgs[1].alpla))

Cutoffs == 0..254

\* C20: the fixed 240 cutoff never changes the outcome: for R, G, B and
\* threshold in [0,255] and both values of inverted, the point is accepted
\* iff (0.299R + 0.587G + 0.114B > threshold) differs from inverted, and the
\* decision is the same with any constant of [0,254] in the place of 240.
\* Away from the ties of exact arithmetic the comparison is that of
\* 299R + 587G + 114B with 1000 * threshold.
C20_CutoffIsIdle ==
    Len(grayResult) = 1 =>
        \A inverted \in BOOLEAN :
            /\ AcceptTest(grayResult[1], inverted) <=> (AboveThreshold # inverted)
            /\ GrayExact # GrayBar =>
                  (AcceptTest(grayResult[1], inverted)
                      <=> ((GrayExact > GrayBar) # inverted))
            /\ \A cutoff \in Cutoffs :
                  AcceptTestWithCutoff(grayResult[1], inverted, cutoff)
                     <=> AcceptTest(grayResult[1], inverted)

\* a call whose weighted sum is above a positive threshold and below 240
\* has returned: the point is accepted when not inverted although the sum
\* itself does not pass the cutoff
C20_Witness ==
    /\ Len(grayResult) = 1
    /\ grayArgs[1].alpla > 0
    /\ GrayExact > GrayBar
    /\ GrayExact < 240000
    /\ AcceptTest(grayResult[1], FALSE)
    /\ ~AcceptTest(grayResult[1], TRUE)

============================================================================
